---- MODULE Spec2Model ----
(***************************************************************************)
(* Model of the three creational-pattern demonstrations:                   *)
(*   - Prototype.clone()          (prototype demo)                         *)
(*   - Singleton.getInstance()    (creational/singleton.ts)                *)
(*   - Creator.someOperation()    (creational/factoryMethod.ts)            *)
(* Objects live in a heap of JavaScript-style objects: each object has a   *)
(* [[Prototype]] link and a set of own properties; a property read walks   *)
(* the prototype chain.                                                    *)
(***************************************************************************)
EXTENDS Integers, Sequences, FiniteSets, TLC

VARIABLES heap, lastOp,
          instance, ctorCalls, clients,
          creators, output

vars == <<heap, lastOp, instance, ctorCalls, clients, creators, output>>

protoVars == <<heap, lastOp>>
singletonVars == <<instance, ctorCalls, clients>>
factoryVars == <<creators, output>>

(***************************************************************************)
(* Bounds                                                                  *)
(***************************************************************************)
MaxClones == 2
MaxOther == 1
NClients == 4
MaxCreators == 2
MaxCalls == 4

(***************************************************************************)
(* JavaScript values and objects                                           *)
(***************************************************************************)
\* [[Prototype]] links that are not heap objects
ObjectProto == 0
PrototypeProto == -1
BackRefProto == -2
DateProto == -3

DemoPrimitive == 245

PrimitiveValues == {DemoPrimitive} \cup (1..MaxOther)

FieldNames == {"primitive", "component", "circularReference", "prototype",
               "data", "inner"}

PrototypeFields == {"primitive", "component", "circularReference"}

Absent == [t |-> "absent", v |-> 0]
Undefined == [t |-> "undefined", v |-> 0]
Num(n) == [t |-> "num", v |-> n]
Ref(o) == [t |-> "ref", v |-> o]

NoOwn == [f \in FieldNames |-> Absent]

\* obj.f = val for each f in the domain of the record `fields`
WithOwn(own, fields) == [f \in FieldNames |->
                           IF f \in DOMAIN fields THEN fields[f] ELSE own[f]]

\* property read obj.f : own property first, then the prototype chain
RECURSIVE Get(_, _, _)
Get(h, o, f) == IF h[o].own[f] # Absent THEN h[o].own[f]
                ELSE IF h[o].proto > 0 THEN Get(h, h[o].proto, f)
                ELSE Undefined

\* the built-in prototype at the end of o's prototype chain
RECURSIVE ChainEnd(_, _)
ChainEnd(h, o) == IF h[o].proto > 0 THEN ChainEnd(h, h[o].proto) ELSE h[o].proto

\* objects on which clone() can be called (Prototype.prototype is on the chain)
Prototypes(h) == {o \in DOMAIN h : ChainEnd(h, o) = PrototypeProto}

\* Object.create(proto): a new object without own properties
ObjectCreate(proto) == [proto |-> proto, own |-> NoOwn]

\* { ...obj } : a new plain object carrying obj's own enumerable properties
Spread(h, o) == [proto |-> ObjectProto, own |-> h[o].own]

(***************************************************************************)
(* Prototype demo: Prototype.clone()                                       *)
(***************************************************************************)
Component(h, this) == Get(h, this, "component").v
Holder(h, this) == Get(h, this, "circularReference").v

\* variant: the clone is built with `new Prototype()`, not linked to `this`
MakeCloneDetached(h, this) == ObjectCreate(PrototypeProto)

\* const clone = Object.create(this)
MakeClone(h, this) == ObjectCreate(this)

\* Object.create(this.component)
MakeComponent(h, this) == ObjectCreate(Component(h, this))

\* variant: clone.component = this.component (no Object.create)
CloneOwnSharedComponent(h, this, compId, holderId) ==
    WithOwn(MakeClone(h, this).own,
            [component |-> Get(h, this, "component"),
             circularReference |-> Ref(holderId)])

\* variant: clone.circularReference = this.circularReference (no new holder)
CloneOwnSharedHolder(h, this, compId, holderId) ==
    WithOwn(MakeClone(h, this).own,
            [component |-> Ref(compId),
             circularReference |-> Get(h, this, "circularReference")])

\* the own properties clone() assigns on the clone
CloneOwn(h, this, compId, holderId) ==
    WithOwn(MakeClone(h, this).own,
            [component |-> Ref(compId), circularReference |-> Ref(holderId)])

\* { ...this }
MakeOwner(h, this) == Spread(h, this)

\* variant: { ...this.circularReference } without the `prototype:` override
MakeHolderNoRewrite(h, this, ownerId) == Spread(h, Holder(h, this))

\* { ...this.circularReference, prototype: <owner> }
MakeHolder(h, this, ownerId) ==
    [proto |-> ObjectProto,
     own |-> WithOwn(Spread(h, Holder(h, this)).own, [prototype |-> Ref(ownerId)])]

\* the object clone() returns
CloneResult(h, this) == Len(h) + 1

\* variant: the new component is stored on `this` as well as on the clone
CloneHeapWritesSource(h, this) ==
    LET n == Len(h)
    IN [h EXCEPT ![this].own = WithOwn(@, [component |-> Ref(n + 2)])]
       \o << [MakeClone(h, this) EXCEPT !.own = CloneOwn(h, this, n + 2, n + 4)],
              MakeComponent(h, this),
              MakeOwner(h, this),
              MakeHolder(h, this, n + 3) >>

\* the heap after this.clone(): four new objects, nothing else touched
CloneHeap(h, this) ==
    LET n == Len(h)
    IN h \o << [MakeClone(h, this) EXCEPT !.own = CloneOwn(h, this, n + 2, n + 4)],
               MakeComponent(h, this),
               MakeOwner(h, this),
               MakeHolder(h, this, n + 3) >>

\* p.primitive = v : defines or overwrites the own property of p
AssignPrimitive(h, p, v) ==
    [h EXCEPT ![p].own = WithOwn(@, [primitive |-> Num(v)])]

\* the component the client hands to the prototype
ComponentShapes == {"date", "record"}

\* clientCode: p1 = new Prototype(); p1.primitive = ..; p1.component = ..;
\* p1.circularReference = new ComponentWithBackReference(p1)
SetupHeap(v, shape) ==
    LET p1 == [proto |-> PrototypeProto,
               own |-> WithOwn(NoOwn, [primitive |-> Num(v),
                                       component |-> Ref(2),
                                       circularReference |-> Ref(3)])]
        back == [proto |-> BackRefProto,
                 own |-> WithOwn(NoOwn, [prototype |-> Ref(1)])]
    IN IF shape = "date"
       THEN << p1, [proto |-> DateProto, own |-> NoOwn], back >>
       ELSE << p1,
               [proto |-> ObjectProto,
                own |-> WithOwn(NoOwn, [data |-> Num(v), inner |-> Ref(4)])],
               back,
               [proto |-> ObjectProto, own |-> WithOwn(NoOwn, [data |-> Num(v)])] >>

\* lastOp records the clone() call just made: its source, its result and the
\* heap size before the call
NoOp == [op |-> "none", src |-> 0, res |-> 0, n0 |-> 0]

PrototypeInit == /\ heap = << >>
                 /\ lastOp = NoOp

ClientSetup == /\ heap = << >>
               /\ \E v \in PrimitiveValues, shape \in ComponentShapes :
                     heap' = SetupHeap(v, shape)
               /\ lastOp' = [op |-> "setup", src |-> 0, res |-> 1, n0 |-> 0]
               /\ UNCHANGED <<singletonVars, factoryVars>>

DoClone == /\ Cardinality(Prototypes(heap)) <= MaxClones
           /\ \E p \in Prototypes(heap) :
                 /\ heap' = CloneHeap(heap, p)
                 /\ lastOp' = [op |-> "clone", src |-> p,
                               res |-> CloneResult(heap, p), n0 |-> Len(heap)]
           /\ UNCHANGED <<singletonVars, factoryVars>>

SetPrimitive == /\ \E p \in Prototypes(heap), v \in PrimitiveValues :
                      /\ heap' = AssignPrimitive(heap, p, v)
                      /\ lastOp' = [op |-> "set", src |-> 0, res |-> 0, n0 |-> 0]
                /\ UNCHANGED <<singletonVars, factoryVars>>

(***************************************************************************)
(* Singleton demo: Singleton.getInstance()                                 *)
(***************************************************************************)
NoInstance == 0

\* variant: the cache test is dropped, every call constructs
NeedsConstructionAlways(inst) == TRUE

\* if (!Singleton.instance)
NeedsConstruction(inst) == inst = NoInstance

\* Singleton.instance after getInstance(); new Singleton() yields a fresh object
InstanceAfter(inst, calls) == IF NeedsConstruction(inst) THEN calls + 1 ELSE inst

\* number of constructor runs after getInstance()
CtorCallsAfter(inst, calls) == IF NeedsConstruction(inst) THEN calls + 1 ELSE calls

Clients == 1..NClients

SingletonInit == /\ instance = NoInstance
                 /\ ctorCalls = 0
                 /\ clients = [c \in Clients |->
                                 [pc |-> "start", s1 |-> NoInstance,
                                  s2 |-> NoInstance, msg |-> "none"]]

\* const s1 = Singleton.getInstance();
ClientGet1 == /\ \E c \in Clients :
                    /\ clients[c].pc = "start"
                    /\ instance' = InstanceAfter(instance, ctorCalls)
                    /\ ctorCalls' = CtorCallsAfter(instance, ctorCalls)
                    /\ clients' = [clients EXCEPT ![c].pc = "got1",
                                                  ![c].s1 = instance']
              /\ UNCHANGED <<protoVars, factoryVars>>

\* const s2 = Singleton.getInstance();
ClientGet2 == /\ \E c \in Clients :
                    /\ clients[c].pc = "got1"
                    /\ instance' = InstanceAfter(instance, ctorCalls)
                    /\ ctorCalls' = CtorCallsAfter(instance, ctorCalls)
                    /\ clients' = [clients EXCEPT ![c].pc = "got2",
                                                  ![c].s2 = instance']
              /\ UNCHANGED <<protoVars, factoryVars>>

\* if (s1 === s2) ... else ...
ClientCompare == /\ \E c \in Clients :
                       /\ clients[c].pc = "got2"
                       /\ clients' = [clients EXCEPT
                             ![c].pc = "done",
                             ![c].msg = IF clients[c].s1 = clients[c].s2
                                        THEN "works" ELSE "failed"]
                 /\ UNCHANGED <<instance, ctorCalls, protoVars, factoryVars>>

(***************************************************************************)
(* Factory Method demo: Creator.someOperation()                            *)
(***************************************************************************)
CreatorKinds == {1, 2}

\* variant: ConcreteCreator2 returns the product of ConcreteCreator1
FactoryMethodSameProduct(kind) == "ConcreteProduct1"

\* ConcreteCreator1.factoryMethod / ConcreteCreator2.factoryMethod
FactoryMethod(kind) == IF kind = 1 THEN "ConcreteProduct1" ELSE "ConcreteProduct2"

\* ConcreteProduct1.operation / ConcreteProduct2.operation
Operation(product) == IF product = "ConcreteProduct1"
                      THEN "{Result of the ConcreteProduct1}"
                      ELSE "{Result of the ConcreteProduct2}"

CreatorPrefix == "Creator: The same creator's code has just worked with "

\* Creator.someOperation
SomeOperation(kind) == CreatorPrefix \o Operation(FactoryMethod(kind))

ClientLine == "Client: I'm not aware of the creator's class, but it still works."

\* s contains sub as a contiguous substring
Contains(s, sub) == \E i \in 1..(Len(s) - Len(sub) + 1) :
                       SubSeq(s, i, i + Len(sub) - 1) = sub

FactoryInit == /\ creators = << >>
               /\ output = << >>

\* new ConcreteCreator1() / new ConcreteCreator2()
NewCreator == /\ Len(creators) < MaxCreators
              /\ \E k \in CreatorKinds : creators' = Append(creators, k)
              /\ UNCHANGED <<output, protoVars, singletonVars>>

\* clientCode(creator)
ClientCode == /\ Len(output) < MaxCalls
              /\ \E i \in 1..Len(creators) :
                    output' = Append(output,
                                [creator |-> i, said |-> ClientLine,
                                 result |-> SomeOperation(creators[i])])
              /\ UNCHANGED <<creators, protoVars, singletonVars>>

(***************************************************************************)
(* Specifications                                                          *)
(***************************************************************************)
Init == PrototypeInit /\ SingletonInit /\ FactoryInit

NextPrototype == ClientSetup \/ DoClone \/ SetPrimitive
NextSingleton == ClientGet1 \/ ClientGet2 \/ ClientCompare
NextFactory == NewCreator \/ ClientCode

SpecPrototype == Init /\ [][NextPrototype]_vars
SpecSingleton == Init /\ [][NextSingleton]_vars
SpecFactory == Init /\ [][NextFactory]_vars

(***************************************************************************)
(* Properties of Prototype.clone()                                         *)
(***************************************************************************)

\* C1: after p2 = p1.clone() on a Prototype p1 whose circularReference.prototype
\* is p1, p2.circularReference.prototype is the very object p2.
C1_BackRefIsClone ==
    (/\ lastOp.op = "clone"
     /\ Get(heap, Holder(heap, lastOp.src), "prototype") = Ref(lastOp.src))
    => Get(heap, Holder(heap, lastOp.res), "prototype") = Ref(lastOp.res)

\* C2: for every Prototype p, clones included, clone(p).circularReference.prototype
\* is not the object p.
C2_BackRefNotSource ==
    lastOp.op = "clone"
    => Get(heap, Holder(heap, lastOp.res), "prototype") # Ref(lastOp.src)

C2_Witness ==
    /\ lastOp.op = "clone"
    /\ heap[lastOp.src].proto > 0
    /\ LET ow == Get(heap, Holder(heap, lastOp.res), "prototype")
       IN /\ ow.t = "ref"
          /\ ow.v > lastOp.n0
          /\ ow.v # lastOp.src

\* C3: for every Prototype p, clones and clones of clones included,
\* clone(p).primitive read right after clone() equals p.primitive.
C3_PrimitiveCarriedOver ==
    lastOp.op = "clone"
    => Get(heap, lastOp.res, "primitive") = Get(heap, lastOp.src, "primitive")

C3_Witness ==
    /\ lastOp.op = "clone"
    /\ heap[lastOp.src].proto > 0
    /\ heap[lastOp.src].own["primitive"] = Absent
    /\ Get(heap, lastOp.res, "primitive").t = "num"
    /\ Get(heap, lastOp.res, "primitive") = Get(heap, 1, "primitive")

\* C4: the clone holds its own copy of the scalar: an assignment to p.primitive
\* leaves the primitive read from every other object (every clone of p) as it was.
C4_CopiedByValue ==
    [][lastOp'.op = "set"
       => \A p \in Prototypes(heap) :
             heap'[p] # heap[p]
             => \A q \in Prototypes(heap) \ {p} :
                   Get(heap', q, "primitive") = Get(heap, q, "primitive")]_vars

\* C5: clone(p).component is a newly allocated object, reference-distinct from
\* p.component, and every field read through it equals the same field read
\* through p.component.
C5_ComponentCloned ==
    lastOp.op = "clone"
    => LET c == Get(heap, lastOp.res, "component")
           s == Get(heap, lastOp.src, "component")
       IN /\ c.t = "ref"
          /\ c.v > lastOp.n0
          /\ c # s
          /\ \A f \in FieldNames : Get(heap, c.v, f) = Get(heap, s.v, f)

C5_Witness ==
    /\ lastOp.op = "clone"
    /\ Get(heap, Component(heap, lastOp.res), "data").t = "num"
    /\ Get(heap, Component(heap, lastOp.res), "inner") = Ref(4)
    /\ Get(heap, Component(heap, lastOp.src), "inner") = Ref(4)
    /\ Component(heap, lastOp.res) # Component(heap, lastOp.src)

\* C6: clone(p).circularReference is a newly allocated holder, reference-distinct
\* from p.circularReference and from the holder of every other Prototype object,
\* earlier clones of p included.
C6_HolderCloned ==
    lastOp.op = "clone"
    => LET c == Get(heap, lastOp.res, "circularReference")
       IN /\ c.t = "ref"
          /\ c.v > lastOp.n0
          /\ c # Get(heap, lastOp.src, "circularReference")
          /\ \A q \in Prototypes(heap) \ {lastOp.res} :
                Get(heap, q, "circularReference") # c

C6_Witness ==
    /\ lastOp.op = "clone"
    /\ \E q \in Prototypes(heap) \ {lastOp.res} :
          /\ heap[q].proto = lastOp.src
          /\ Holder(heap, q) # Holder(heap, lastOp.res)
          /\ Holder(heap, q) # Holder(heap, lastOp.src)

\* C7: clone() does not mutate its source: every object that existed before the
\* call is unchanged, so p.primitive, p.component and p.circularReference read
\* the same, the two nested objects are unchanged, and a back-reference that
\* pointed at p still does.
C7_SourceNotMutated ==
    [][(lastOp'.op = "clone" /\ heap' # heap)
       => LET p == lastOp'.src
          IN /\ \A o \in DOMAIN heap : o \in DOMAIN heap' /\ heap'[o] = heap[o]
             /\ \A f \in PrototypeFields : Get(heap', p, f) = Get(heap, p, f)
             /\ heap'[Component(heap, p)] = heap[Component(heap, p)]
             /\ heap'[Holder(heap, p)] = heap[Holder(heap, p)]
             /\ (Get(heap, Holder(heap, p), "prototype") = Ref(p)
                 => Get(heap', Holder(heap', p), "prototype") = Ref(p))]_vars

C7_Witness ==
    /\ lastOp.op = "clone"
    /\ lastOp.src = 1
    /\ Cardinality(Prototypes(heap)) = 3
    /\ Get(heap, Holder(heap, 1), "prototype") = Ref(1)
    /\ Component(heap, 1) = 2

\* C10: for every Prototype p, clones included, clone(p).circularReference.prototype
\* is a fresh object carrying all three fields primitive, component and
\* circularReference, each equal to p's value for that field.
C10_OwnerCopiesAllFields ==
    lastOp.op = "clone"
    => LET ow == Get(heap, Holder(heap, lastOp.res), "prototype")
       IN /\ ow.t = "ref"
          /\ ow.v > lastOp.n0
          /\ \A f \in PrototypeFields :
                /\ heap[ow.v].own[f] # Absent
                /\ heap[ow.v].own[f] = Get(heap, lastOp.src, f)

(***************************************************************************)
(* Properties of Singleton.getInstance()                                   *)
(***************************************************************************)

\* C8: getInstance() returns the same object on every call: the first call
\* constructs the instance, every later call returns the cached reference, the
\* constructor runs at most once and Singleton.instance is never reassigned.
C8_SingleInstance ==
    /\ [](/\ ctorCalls <= 1
          /\ (ctorCalls = 0) <=> (instance = NoInstance)
          /\ \A c \in Clients :
                /\ clients[c].pc # "start"
                   => clients[c].s1 = instance /\ instance # NoInstance
                /\ clients[c].pc \in {"got2", "done"}
                   => clients[c].s2 = instance
                /\ clients[c].pc = "done" => clients[c].msg = "works")
    /\ [][instance # NoInstance => instance' = instance]_vars

C8_Witness ==
    \E c, d \in Clients :
       /\ c # d
       /\ clients[c].pc = "done"
       /\ clients[c].msg = "works"
       /\ clients[d].pc = "got1"
       /\ clients[d].s1 = clients[c].s2
       /\ ctorCalls = 1

(***************************************************************************)
(* Properties of Creator.someOperation()                                   *)
(***************************************************************************)

\* C9: someOperation() on a ConcreteCreator1 embeds ConcreteProduct1's operation()
\* string and never ConcreteProduct2's, on a ConcreteCreator2 the reverse, on
\* every call in any order.
C9_Dispatch ==
    \A i \in 1..Len(output) :
       LET k == creators[output[i].creator]
           r == output[i].result
       IN /\ k = 1 => /\ Contains(r, Operation("ConcreteProduct1"))
                      /\ ~Contains(r, Operation("ConcreteProduct2"))
          /\ k = 2 => /\ Contains(r, Operation("ConcreteProduct2"))
                      /\ ~Contains(r, Operation("ConcreteProduct1"))

C9_Witness ==
    /\ Len(output) >= 3
    /\ \E i, j \in 1..Len(output) :
          /\ i < j
          /\ creators[output[i].creator] = 2
          /\ creators[output[j].creator] = 1
          /\ output[i].result # output[j].result

====
